---------------------------- MODULE Spec2Model ----------------------------
(***************************************************************************)
(* jsmn (src/jsmn.h): an incremental JSON tokenizer.  The build modelled   *)
(* is the strict dialect (JSMN_PERMISSIVE undefined, JSMN_NEXT_SIBLING     *)
(* undefined); JSMN_PARENT_LINKS is a parameter (links) of every operator, *)
(* so both builds of the strict dialect are modelled.                      *)
(*                                                                         *)
(* Representation.  A byte is its code 0..255 and the buffer js a sequence *)
(* of bytes; the C index i is the TLA+ index i + 1.  jsmnint_t (unsigned   *)
(* int) values are written in their signed reading, so JSMN_NEG, which is  *)
(* (jsmnint_t)-1, is -1 and the error codes returned through jsmnint_t are *)
(* -1, -2, -3; every other value the code computes stays far below 2^31,   *)
(* and the code only compares such values with == and != against JSMN_NEG *)
(* or orders values that are not JSMN_NEG.  A type mask is the integer of  *)
(* the enum, combined with BitAnd/BitOr.  The token pool is the sequence   *)
(* of the records allocated so far (its length is parser.toknext) together *)
(* with its capacity num_tokens; `null` says that the last call passed    *)
(* tokens = NULL.  jsmn_parse carries out every call, so the caller of    *)
(* the model may call in every state; `strayed` records whether the calls *)
(* so far were the documented resumptions of one run.  A call whose pool  *)
(* is smaller than the records it accesses reads and writes beyond the    *)
(* pool, which is undefined behaviour: `fate` records it, and the model   *)
(* then holds nothing about the parser, the records or the return value.  *)
(***************************************************************************)
EXTENDS Integers, Sequences, FiniteSets, TLC

\* ------------------------------------------------------------ bounds
\* Every byte string up to this length over Alphabet is fed to the parser.
MaxLen == 3
\* The pool capacities a caller passes: every one up to MaxTokens, and one,
\* Ample, that is enough for every buffer fed.
MaxTokens == 2
Ample == 8

\* ------------------------------------------------------------ jsmntype_t
JSMN_UNDEFINED == 0
JSMN_OBJECT == 1
JSMN_ARRAY == 2
JSMN_STRING == 4
JSMN_PRIMITIVE == 8
JSMN_KEY == 16
JSMN_VALUE == 32
JSMN_CLOSE == 64
JSMN_DELIMITER == 128

Bit(x, i) == (x \div (2 ^ i)) % 2

BitAnd(x, y) ==
  LET b(i) == IF Bit(x, i) = 1 /\ Bit(y, i) = 1 THEN 2 ^ i ELSE 0
  IN  b(0) + b(1) + b(2) + b(3) + b(4) + b(5) + b(6) + b(7)

BitOr(x, y) ==
  LET b(i) == IF Bit(x, i) = 1 \/ Bit(y, i) = 1 THEN 2 ^ i ELSE 0
  IN  b(0) + b(1) + b(2) + b(3) + b(4) + b(5) + b(6) + b(7)

JSMN_CONTAINER == BitOr(JSMN_OBJECT, JSMN_ARRAY)
JSMN_ANY_TYPE ==
  BitOr(BitOr(JSMN_OBJECT, JSMN_ARRAY), BitOr(JSMN_STRING, JSMN_PRIMITIVE))

\* ------------------------------------------------------------ enum jsmnerr
JSMN_SUCCESS == 0
JSMN_ERROR_NOMEM == -1
JSMN_ERROR_INVAL == -2
JSMN_ERROR_PART == -3

JSMN_NEG == -1

\* ------------------------------------------------------------ bytes
NUL == 0
TAB == 9
LF == 10
CR == 13
SPACE == 32
QUOTE == 34
COMMA == 44
MINUS == 45
SLASH == 47
CH_0 == 48
CH_1 == 49
CH_2 == 50
CH_9 == 57
COLON == 58
CH_A == 65
CH_F == 70
LBRACKET == 91
BACKSLASH == 92
RBRACKET == 93
CH_a == 97
CH_b == 98
CH_f == 102
CH_n == 110
CH_r == 114
CH_t == 116
CH_u == 117
LBRACE == 123
RBRACE == 125
DEL == 127

\* js[i]
Byte(js, i) == js[i + 1]

\* The loop condition of the three scanning loops:
\* parser->pos < len && js[parser->pos] != '\0'.
InBuffer(js, len, pos) == pos < len /\ Byte(js, pos) # NUL

\* ------------------------------------------------------------ tokens
\* tokens[i]
Tok(tokens, i) == tokens[i + 1]

jsmn_is_type(token, type) == BitAnd(token.type, type)

jsmn_is_expected(parser, type) == BitAnd(parser.expected, type)

\* A token is open from the moment its start is set until its end is set.
IsOpen_Started(token) == token.start # JSMN_NEG

IsOpen(token) == token.start # JSMN_NEG /\ token.end = JSMN_NEG

\* What a call returns: the value r and the parser and pool it leaves.
Ret(r, parser, tokens) == [r |-> r, parser |-> parser, tokens |-> tokens]

jsmn_alloc_token_NoCap(parser, tokens, num_tokens) ==
  [ok |-> TRUE,
   parser |-> [parser EXCEPT !.toknext = parser.toknext + 1],
   tokens |-> Append(tokens,
                     [type |-> JSMN_UNDEFINED, start |-> JSMN_NEG,
                      end |-> JSMN_NEG, size |-> 0, parent |-> JSMN_NEG])]

\* jsmn_alloc_token: ok is FALSE for the NULL result; otherwise the new
\* record is tokens[toknext - 1] of the result.
jsmn_alloc_token(parser, tokens, num_tokens) ==
  IF parser.toknext >= num_tokens
  THEN [ok |-> FALSE, parser |-> parser, tokens |-> tokens]
  ELSE [ok |-> TRUE,
        parser |-> [parser EXCEPT !.toknext = parser.toknext + 1],
        tokens |-> Append(tokens,
                          [type |-> JSMN_UNDEFINED, start |-> JSMN_NEG,
                           end |-> JSMN_NEG, size |-> 0, parent |-> JSMN_NEG])]

jsmn_fill_token_end1(token, type, start, end) ==
  [token EXCEPT !.type = type, !.start = start, !.end = end + 1, !.size = 0]

jsmn_fill_token(token, type, start, end) ==
  [token EXCEPT !.type = type, !.start = start, !.end = end, !.size = 0]


Rewind_Not(parser, start) == parser

\* parser->pos = start: the cursor, which the scan has moved on, goes back to
\* the first byte of the token.
Rewind(parser, start) == [parser EXCEPT !.pos = start]

\* ------------------------------------------------------------ primitive
\* The bytes at which the scan of a primitive stops (strict dialect).
IsPrimitiveEnd(c) == c \in {SPACE, TAB, LF, CR, COMMA, RBRACKET, RBRACE}

\* The scanning loop of jsmn_parse_primitive from position pos: "found" at
\* the terminating byte, "inval" at a byte outside 32..126, "end" when the
\* buffer (or a null byte) ends the literal.
RECURSIVE PrimitiveScan(_, _, _)
PrimitiveScan(js, len, pos) ==
  IF ~InBuffer(js, len, pos) THEN [at |-> pos, how |-> "end"]
  ELSE IF IsPrimitiveEnd(Byte(js, pos)) THEN [at |-> pos, how |-> "found"]
  ELSE IF Byte(js, pos) < SPACE \/ Byte(js, pos) >= DEL
       THEN [at |-> pos, how |-> "inval"]
  ELSE PrimitiveScan(js, len, pos + 1)

jsmn_parse_primitive(parser, js, len, tokens, num_tokens, null, links) ==
  IF ~null /\ jsmn_is_expected(parser, JSMN_PRIMITIVE) = 0
  THEN Ret(JSMN_ERROR_INVAL, parser, tokens)
  ELSE
    LET start == parser.pos
        scan == PrimitiveScan(js, len, start)
        al == jsmn_alloc_token(parser, tokens, num_tokens)
        token == [jsmn_fill_token(Tok(al.tokens, al.parser.toknext - 1),
                                  JSMN_PRIMITIVE, start, scan.at)
                    EXCEPT !.type = BitOr(JSMN_PRIMITIVE, JSMN_VALUE),
                           !.parent = IF links THEN parser.toksuper
                                      ELSE JSMN_NEG]
    IN  IF scan.how = "inval"
        THEN Ret(JSMN_ERROR_INVAL, Rewind([parser EXCEPT !.pos = scan.at], start), tokens)
        ELSE IF scan.how = "end"
        THEN Ret(JSMN_ERROR_PART, Rewind([parser EXCEPT !.pos = scan.at], start), tokens)
        ELSE IF null
        THEN Ret(JSMN_SUCCESS, [parser EXCEPT !.pos = scan.at - 1], tokens)
        ELSE IF ~al.ok
        THEN Ret(JSMN_ERROR_NOMEM, Rewind([parser EXCEPT !.pos = scan.at], start), tokens)
        ELSE Ret(JSMN_SUCCESS,
                 [al.parser EXCEPT
                    !.expected = BitOr(JSMN_DELIMITER, JSMN_CLOSE),
                    !.pos = scan.at - 1],
                 [al.tokens EXCEPT ![al.parser.toknext] = token])

\* ------------------------------------------------------------ string
IsHex(c) ==
  \/ c >= CH_0 /\ c <= CH_9
  \/ c >= CH_A /\ c <= CH_F
  \/ c >= CH_a /\ c <= CH_f

IsEscape(c) ==
  c \in {QUOTE, BACKSLASH, SLASH, CH_b, CH_f, CH_n, CH_r, CH_t}

\* The loop over the hex digits of \uXXXX: i digits read, pos the next byte.
\* It yields the position the loop leaves, or JSMN_NEG at a non-hex byte.
RECURSIVE HexScan(_, _, _, _)
HexScan(js, len, pos, i) ==
  IF ~(i < 4 /\ InBuffer(js, len, pos)) THEN pos
  ELSE IF ~IsHex(Byte(js, pos)) THEN JSMN_NEG
  ELSE HexScan(js, len, pos + 1, i + 1)

\* The scanning loop of jsmn_parse_string from position pos (after the
\* opening quote): "quote" at the closing quote, "inval" at a bad escape,
\* "end" when the buffer (or a null byte) ends the string.
RECURSIVE StringScan(_, _, _)
StringScan(js, len, pos) ==
  IF ~InBuffer(js, len, pos) THEN [at |-> pos, how |-> "end"]
  ELSE IF Byte(js, pos) = QUOTE THEN [at |-> pos, how |-> "quote"]
  ELSE IF Byte(js, pos) = BACKSLASH /\ pos + 1 < len
  THEN IF IsEscape(Byte(js, pos + 1)) THEN StringScan(js, len, pos + 2)
       ELSE IF Byte(js, pos + 1) = CH_u
       THEN LET h == HexScan(js, len, pos + 2, 0)
            IN  IF h = JSMN_NEG THEN [at |-> pos, how |-> "inval"]
                ELSE StringScan(js, len, h)
       ELSE [at |-> pos, how |-> "inval"]
  ELSE StringScan(js, len, pos + 1)

jsmn_parse_string(parser, js, len, tokens, num_tokens, null, links) ==
  IF ~null /\ jsmn_is_expected(parser, JSMN_STRING) = 0
  THEN Ret(JSMN_ERROR_INVAL, parser, tokens)
  ELSE
    LET start == parser.pos
        scan == StringScan(js, len, start + 1)
        al == jsmn_alloc_token(parser, tokens, num_tokens)
        isKey ==
          /\ jsmn_is_type(Tok(al.tokens, parser.toksuper), JSMN_OBJECT) # 0
          /\ jsmn_is_type(Tok(al.tokens, al.parser.toknext - 2),
                          BitOr(JSMN_OBJECT, JSMN_VALUE)) # 0
        token == [jsmn_fill_token(Tok(al.tokens, al.parser.toknext - 1),
                                  JSMN_STRING, start + 1, scan.at)
                    EXCEPT !.type = BitOr(JSMN_STRING,
                                          IF isKey THEN JSMN_KEY
                                          ELSE JSMN_VALUE),
                           !.parent = IF links THEN parser.toksuper
                                      ELSE JSMN_NEG]
    IN  IF scan.how = "inval"
        THEN Ret(JSMN_ERROR_INVAL, Rewind([parser EXCEPT !.pos = scan.at], start), tokens)
        ELSE IF scan.how = "end"
        THEN Ret(JSMN_ERROR_PART, Rewind([parser EXCEPT !.pos = scan.at], start), tokens)
        ELSE IF null
        THEN Ret(JSMN_SUCCESS, [parser EXCEPT !.pos = scan.at], tokens)
        ELSE IF ~al.ok
        THEN Ret(JSMN_ERROR_NOMEM, Rewind([parser EXCEPT !.pos = scan.at], start), tokens)
        ELSE Ret(JSMN_SUCCESS,
                 [al.parser EXCEPT
                    !.expected = IF isKey THEN JSMN_DELIMITER
                                 ELSE BitOr(JSMN_DELIMITER, JSMN_CLOSE),
                    !.pos = scan.at],
                 [al.tokens EXCEPT ![al.parser.toknext] = token])

\* ------------------------------------------------------------ jsmn_parse
\* One case of the switch either returns (ret) or lets the loop go on (go)
\* with the parser, the pool and the running count it leaves.
Go(parser, tokens, count) ==
  [go |-> TRUE, r |-> JSMN_SUCCESS, parser |-> parser, tokens |-> tokens,
   count |-> count]

Stop(r, parser, tokens) ==
  [go |-> FALSE, r |-> r, parser |-> parser, tokens |-> tokens, count |-> 0]

\* case '{': case '[':
OpenContainer(parser, c, tokens, num_tokens, count, null, links) ==
  LET al == jsmn_alloc_token(parser, tokens, num_tokens)
      new == al.parser.toknext
      type == IF c = LBRACE THEN JSMN_OBJECT ELSE JSMN_ARRAY
      typed == [al.tokens EXCEPT ![new].type = type]
      sized == IF parser.toksuper # JSMN_NEG
               THEN [typed EXCEPT
                       ![parser.toksuper + 1].size = @ + 1,
                       ![new].parent = IF links THEN parser.toksuper ELSE @]
               ELSE typed
  IN  IF null THEN Go(parser, tokens, count + 1)
      ELSE IF ~al.ok THEN Stop(JSMN_ERROR_NOMEM, parser, tokens)
      ELSE IF jsmn_is_expected(parser, type) = 0
      THEN Stop(JSMN_ERROR_INVAL, al.parser, typed)
      ELSE Go([al.parser EXCEPT
                 !.expected = IF type = JSMN_OBJECT
                              THEN BitOr(JSMN_STRING, JSMN_CLOSE)
                              ELSE BitOr(JSMN_ANY_TYPE, JSMN_CLOSE),
                 !.toksuper = al.parser.toknext - 1],
              [sized EXCEPT ![new].type = BitOr(type, JSMN_VALUE),
                            ![new].start = parser.pos],
              count + 1)

\* case '}': case ']': with JSMN_PARENT_LINKS, the walk from token i up the
\* parent links.  "closed": token at was closed; "kept": the walk ended at a
\* token without parent and changed nothing; "inval".
RECURSIVE CloseWalk(_, _, _, _)
CloseWalk(tokens, i, type, toksuper) ==
  IF IsOpen(Tok(tokens, i))
  THEN IF jsmn_is_type(Tok(tokens, i), type) = 0
       THEN [how |-> "inval", at |-> i]
       ELSE [how |-> "closed", at |-> i]
  ELSE IF Tok(tokens, i).parent = JSMN_NEG
  THEN IF jsmn_is_type(Tok(tokens, i), type) = 0 \/ toksuper = JSMN_NEG
       THEN [how |-> "inval", at |-> i]
       ELSE [how |-> "kept", at |-> i]
  ELSE CloseWalk(tokens, Tok(tokens, i).parent, type, toksuper)

\* Without JSMN_PARENT_LINKS: the loops for (...; i != JSMN_NEG; i--) that
\* look for an open token from index i downwards; JSMN_NEG when none is.
RECURSIVE OpenBelow(_, _)
OpenBelow(tokens, i) ==
  IF i = JSMN_NEG THEN JSMN_NEG
  ELSE IF IsOpen(Tok(tokens, i)) THEN i
  ELSE OpenBelow(tokens, i - 1)

AfterClose_KeepSuper(parser, toksuper) ==
  [parser EXCEPT
     !.expected = IF toksuper = JSMN_NEG THEN JSMN_CONTAINER
                  ELSE BitOr(JSMN_DELIMITER, JSMN_CLOSE)]

\* The expected mask after an accepted closing bracket.
AfterClose(parser, toksuper) ==
  [parser EXCEPT
     !.toksuper = toksuper,
     !.expected = IF toksuper = JSMN_NEG THEN JSMN_CONTAINER
                  ELSE BitOr(JSMN_DELIMITER, JSMN_CLOSE)]

CloseContainer(parser, c, tokens, count, null, links) ==
  LET type == IF c = RBRACE THEN JSMN_OBJECT ELSE JSMN_ARRAY
      walk == CloseWalk(tokens, parser.toknext - 1, type, parser.toksuper)
      i == OpenBelow(tokens, parser.toknext - 1)
      closed == [tokens EXCEPT ![i + 1].end = parser.pos + 1]
      up == OpenBelow(closed, i)
  IN  IF null THEN Go(parser, tokens, count)
      ELSE IF jsmn_is_expected(parser, JSMN_CLOSE) = 0
      THEN Stop(JSMN_ERROR_INVAL, parser, tokens)
      ELSE IF links
      THEN IF parser.toknext < 1 \/ walk.how = "inval"
           THEN Stop(JSMN_ERROR_INVAL, parser, tokens)
           ELSE IF walk.how = "kept"
           THEN Go(AfterClose(parser, parser.toksuper), tokens, count)
           ELSE Go(AfterClose(parser, Tok(tokens, walk.at).parent),
                   [tokens EXCEPT ![walk.at + 1].end = parser.pos + 1],
                   count)
      ELSE IF i = JSMN_NEG THEN Stop(JSMN_ERROR_INVAL, parser, tokens)
      ELSE IF jsmn_is_type(Tok(tokens, i), type) = 0
      THEN Stop(JSMN_ERROR_INVAL, parser, tokens)
      ELSE Go(AfterClose(parser, up), closed, count)

Colon_AnyToken(parser, tokens, count, null) ==
  IF jsmn_is_expected(parser, JSMN_DELIMITER) = 0
  THEN Stop(JSMN_ERROR_INVAL, parser, tokens)
  ELSE Go([parser EXCEPT !.expected = JSMN_ANY_TYPE,
                         !.toksuper = parser.toknext - 1],
          tokens, count)

\* case ':':
Colon(parser, tokens, count, null) ==
  IF jsmn_is_expected(parser, JSMN_DELIMITER) = 0
  THEN Stop(JSMN_ERROR_INVAL, parser, tokens)
  ELSE IF /\ ~null
          /\ \/ parser.toksuper = JSMN_NEG
             \/ jsmn_is_type(Tok(tokens, parser.toknext - 1), JSMN_KEY) = 0
  THEN Stop(JSMN_ERROR_INVAL, parser, tokens)
  ELSE Go([parser EXCEPT !.expected = JSMN_ANY_TYPE,
                         !.toksuper = parser.toknext - 1],
          tokens, count)

\* case ',': without JSMN_PARENT_LINKS, the loop that looks from index i
\* downwards for a container token that is open; JSMN_NEG when none is.
RECURSIVE OpenContainerBelow(_, _)
OpenContainerBelow(tokens, i) ==
  IF i = JSMN_NEG THEN JSMN_NEG
  ELSE IF /\ jsmn_is_type(Tok(tokens, i), JSMN_CONTAINER) # 0
          /\ IsOpen(Tok(tokens, i))
  THEN i
  ELSE OpenContainerBelow(tokens, i - 1)

\* The expected mask after an accepted comma.
CommaExpected(parser, tokens) ==
  IF jsmn_is_type(Tok(tokens, parser.toksuper), JSMN_OBJECT) # 0
  THEN JSMN_STRING
  ELSE JSMN_ANY_TYPE

CommaSuper_Parent(parser, tokens, links) ==
  Tok(tokens, parser.toksuper).parent

\* The open container after an accepted comma.
CommaSuper(parser, tokens, links) ==
  IF jsmn_is_type(Tok(tokens, parser.toksuper), JSMN_CONTAINER) # 0
  THEN parser.toksuper
  ELSE IF links THEN Tok(tokens, parser.toksuper).parent
  ELSE LET i == OpenContainerBelow(tokens, parser.toknext - 1)
       IN  IF i = JSMN_NEG THEN parser.toksuper ELSE i

Comma(parser, tokens, count, null, links) ==
  IF null \/ parser.toksuper = JSMN_NEG THEN Go(parser, tokens, count)
  ELSE IF jsmn_is_expected(parser, JSMN_DELIMITER) = 0
  THEN Stop(JSMN_ERROR_INVAL, parser, tokens)
  ELSE IF jsmn_is_type(Tok(tokens, parser.toknext - 1), JSMN_KEY) # 0
  THEN Stop(JSMN_ERROR_INVAL, parser, tokens)
  ELSE Go([parser EXCEPT !.expected = CommaExpected(parser, tokens),
                         !.toksuper = CommaSuper(parser, tokens, links)],
          tokens, count)

Counted_NoSize(res, count, null) ==
  IF res.r # JSMN_SUCCESS THEN Stop(res.r, res.parser, res.tokens)
  ELSE Go(res.parser, res.tokens, count + 1)

\* count++ and tokens[parser->toksuper].size++ after a string or primitive.
Counted(res, count, null) ==
  IF res.r # JSMN_SUCCESS THEN Stop(res.r, res.parser, res.tokens)
  ELSE Go(res.parser,
          IF ~null /\ res.parser.toksuper # JSMN_NEG
          THEN [res.tokens EXCEPT ![res.parser.toksuper + 1].size = @ + 1]
          ELSE res.tokens,
          count + 1)

\* The bytes that start a primitive under the strict dialect.
IsPrimitiveStart(c) ==
  \/ c = MINUS
  \/ c >= CH_0 /\ c <= CH_9
  \/ c \in {CH_t, CH_f, CH_n}

\* The switch on the byte at parser->pos.
Dispatch(parser, js, len, tokens, num_tokens, count, null, links) ==
  LET c == Byte(js, parser.pos)
  IN  IF c \in {LBRACE, LBRACKET}
      THEN OpenContainer(parser, c, tokens, num_tokens, count, null, links)
      ELSE IF c \in {RBRACE, RBRACKET}
      THEN CloseContainer(parser, c, tokens, count, null, links)
      ELSE IF c = QUOTE
      THEN Counted(jsmn_parse_string(parser, js, len, tokens, num_tokens,
                                     null, links), count, null)
      ELSE IF c \in {SPACE, TAB, LF, CR} THEN Go(parser, tokens, count)
      ELSE IF c = COLON THEN Colon(parser, tokens, count, null)
      ELSE IF c = COMMA THEN Comma(parser, tokens, count, null, links)
      ELSE IF IsPrimitiveStart(c)
      THEN Counted(jsmn_parse_primitive(parser, js, len, tokens, num_tokens,
                                        null, links), count, null)
      ELSE Stop(JSMN_ERROR_INVAL, parser, tokens)

AtEnd_NoPart(parser, tokens, count, null) == Ret(count, parser, tokens)

\* The code after the loop: PART while a token is open, else the count.
AtEnd(parser, tokens, count, null) ==
  IF ~null /\ OpenBelow(tokens, parser.toknext - 1) # JSMN_NEG
  THEN Ret(JSMN_ERROR_PART, parser, tokens)
  ELSE Ret(count, parser, tokens)

\* The for loop of jsmn_parse.
RECURSIVE ParseLoop(_, _, _, _, _, _, _, _)
ParseLoop(parser, js, len, tokens, num_tokens, count, null, links) ==
  IF ~InBuffer(js, len, parser.pos)
  THEN AtEnd(parser, tokens, count, null)
  ELSE LET d == Dispatch(parser, js, len, tokens, num_tokens, count, null,
                         links)
       IN  IF ~d.go THEN Ret(d.r, d.parser, d.tokens)
           ELSE ParseLoop([d.parser EXCEPT !.pos = d.parser.pos + 1], js,
                          len, d.tokens, num_tokens, d.count, null, links)

jsmn_parse_count0(parser, js, len, tokens, num_tokens, null, links) ==
  ParseLoop(parser, js, len, tokens, num_tokens, 0, null, links)

jsmn_parse(parser, js, len, tokens, num_tokens, null, links) ==
  ParseLoop(parser, js, len, tokens, num_tokens, parser.toknext, null, links)

\* ------------------------------------------------------------ pool accesses
\* The indices i of the records tokens[i] that the code reads or writes,
\* collected in the order of the code and under its short-circuit
\* conditions.  A record is in the pool when its index is one of the
\* records allocated so far.
InPool(tokens, i) == i >= 0 /\ i < Len(tokens)

\* case '}': case ']': with JSMN_PARENT_LINKS, the records the walk
\* token = &tokens[token->parent] passes through, from index i on.
RECURSIVE CloseWalkTouches(_, _)
CloseWalkTouches(tokens, i) ==
  IF ~InPool(tokens, i) THEN {i}
  ELSE IF IsOpen(Tok(tokens, i)) \/ Tok(tokens, i).parent = JSMN_NEG
  THEN {i}
  ELSE {i} \cup CloseWalkTouches(tokens, Tok(tokens, i).parent)

\* The loops for (...; i != JSMN_NEG; i--) that stop at an open token: the
\* records they test from index i downwards.
RECURSIVE OpenBelowTouches(_, _)
OpenBelowTouches(tokens, i) ==
  IF i = JSMN_NEG THEN {}
  ELSE IF ~InPool(tokens, i) THEN {i}
  ELSE IF IsOpen(Tok(tokens, i)) THEN {i}
  ELSE {i} \cup OpenBelowTouches(tokens, i - 1)

\* case ',': without JSMN_PARENT_LINKS, the records the loop that looks for
\* an open container tests from index i downwards.
RECURSIVE OpenContainerBelowTouches(_, _)
OpenContainerBelowTouches(tokens, i) ==
  IF i = JSMN_NEG THEN {}
  ELSE IF ~InPool(tokens, i) THEN {i}
  ELSE IF /\ jsmn_is_type(Tok(tokens, i), JSMN_CONTAINER) # 0
          /\ IsOpen(Tok(tokens, i))
  THEN {i}
  ELSE {i} \cup OpenContainerBelowTouches(tokens, i - 1)

\* case '{': case '[': the allocated record tokens[toknext++], then
\* tokens[parser->toksuper].size++.
OpenContainerTouches(parser, c, tokens, num_tokens, null) ==
  LET al == jsmn_alloc_token(parser, tokens, num_tokens)
      type == IF c = LBRACE THEN JSMN_OBJECT ELSE JSMN_ARRAY
  IN  IF null \/ ~al.ok THEN {}
      ELSE IF jsmn_is_expected(parser, type) = 0 THEN {parser.toknext}
      ELSE {parser.toknext}
             \cup (IF parser.toksuper # JSMN_NEG THEN {parser.toksuper}
                   ELSE {})

\* case '}': case ']':
CloseContainerTouches(parser, c, tokens, null, links) ==
  LET type == IF c = RBRACE THEN JSMN_OBJECT ELSE JSMN_ARRAY
      first == OpenBelowTouches(tokens, parser.toknext - 1)
      i == OpenBelow(tokens, parser.toknext - 1)
  IN  IF null \/ jsmn_is_expected(parser, JSMN_CLOSE) = 0 THEN {}
      ELSE IF links
      THEN IF parser.toknext < 1 THEN {}
           ELSE CloseWalkTouches(tokens, parser.toknext - 1)
      ELSE IF \E k \in first : ~InPool(tokens, k) THEN first
      ELSE IF i = JSMN_NEG \/ jsmn_is_type(Tok(tokens, i), type) = 0
      THEN first
      ELSE first
             \cup OpenBelowTouches(
                    [tokens EXCEPT ![i + 1].end = parser.pos + 1], i)

\* jsmn_parse_string, lines 381-396, and the size++ that follows it in
\* jsmn_parse: the allocated record, tokens[parser->toksuper] and, when that
\* one is an OBJECT, tokens[parser->toknext - 2].
StringTouches(parser, js, len, tokens, num_tokens, null) ==
  LET scan == StringScan(js, len, parser.pos + 1)
      al == jsmn_alloc_token(parser, tokens, num_tokens)
  IN  IF null \/ jsmn_is_expected(parser, JSMN_STRING) = 0 THEN {}
      ELSE IF scan.how # "quote" \/ ~al.ok THEN {}
      ELSE {parser.toknext, parser.toksuper}
             \cup (IF /\ InPool(al.tokens, parser.toksuper)
                      /\ jsmn_is_type(Tok(al.tokens, parser.toksuper),
                                      JSMN_OBJECT) # 0
                   THEN {al.parser.toknext - 2}
                   ELSE {})

\* jsmn_parse_primitive, lines 294-299, and the size++ that follows it in
\* jsmn_parse.
PrimitiveTouches(parser, js, len, tokens, num_tokens, null) ==
  LET scan == PrimitiveScan(js, len, parser.pos)
      al == jsmn_alloc_token(parser, tokens, num_tokens)
  IN  IF null \/ jsmn_is_expected(parser, JSMN_PRIMITIVE) = 0 THEN {}
      ELSE IF scan.how # "found" \/ ~al.ok THEN {}
      ELSE {parser.toknext}
             \cup (IF parser.toksuper # JSMN_NEG THEN {parser.toksuper}
                   ELSE {})

\* case ':': tokens[parser->toknext - 1], read unless parser->toksuper is
\* JSMN_NEG.
ColonTouches(parser, tokens, null) ==
  IF jsmn_is_expected(parser, JSMN_DELIMITER) = 0 THEN {}
  ELSE IF null \/ parser.toksuper = JSMN_NEG THEN {}
  ELSE {parser.toknext - 1}

\* case ',': tokens[parser->toknext - 1], then tokens[parser->toksuper] and,
\* when that one is no container, its parent field or the loop downwards.
CommaTouches(parser, tokens, null, links) ==
  IF null \/ parser.toksuper = JSMN_NEG THEN {}
  ELSE IF jsmn_is_expected(parser, JSMN_DELIMITER) = 0 THEN {}
  ELSE IF ~InPool(tokens, parser.toknext - 1) THEN {parser.toknext - 1}
  ELSE IF jsmn_is_type(Tok(tokens, parser.toknext - 1), JSMN_KEY) # 0
  THEN {parser.toknext - 1}
  ELSE IF ~InPool(tokens, parser.toksuper)
  THEN {parser.toknext - 1, parser.toksuper}
  ELSE {parser.toknext - 1, parser.toksuper}
         \cup (IF \/ links
                  \/ jsmn_is_type(Tok(tokens, parser.toksuper),
                                  JSMN_CONTAINER) # 0
               THEN {}
               ELSE OpenContainerBelowTouches(tokens, parser.toknext - 1))

\* The records one turn of the switch on the byte at parser->pos touches.
DispatchTouches(parser, js, len, tokens, num_tokens, null, links) ==
  LET c == Byte(js, parser.pos)
  IN  IF c \in {LBRACE, LBRACKET}
      THEN OpenContainerTouches(parser, c, tokens, num_tokens, null)
      ELSE IF c \in {RBRACE, RBRACKET}
      THEN CloseContainerTouches(parser, c, tokens, null, links)
      ELSE IF c = QUOTE
      THEN StringTouches(parser, js, len, tokens, num_tokens, null)
      ELSE IF c = COLON THEN ColonTouches(parser, tokens, null)
      ELSE IF c = COMMA THEN CommaTouches(parser, tokens, null, links)
      ELSE IF IsPrimitiveStart(c)
      THEN PrimitiveTouches(parser, js, len, tokens, num_tokens, null)
      ELSE {}

\* parser->toknext once the turn of the switch on the byte at parser->pos
\* has allocated its record, if it allocates one.
ToknextAfter(parser, js, len, tokens, num_tokens, null) ==
  LET c == Byte(js, parser.pos)
      al == jsmn_alloc_token(parser, tokens, num_tokens)
  IN  IF null THEN parser.toknext
      ELSE IF c \in {LBRACE, LBRACKET} THEN al.parser.toknext
      ELSE IF /\ c = QUOTE
              /\ jsmn_is_expected(parser, JSMN_STRING) # 0
              /\ StringScan(js, len, parser.pos + 1).how = "quote"
      THEN al.parser.toknext
      ELSE IF /\ IsPrimitiveStart(c)
              /\ jsmn_is_expected(parser, JSMN_PRIMITIVE) # 0
              /\ PrimitiveScan(js, len, parser.pos).how = "found"
      THEN al.parser.toknext
      ELSE parser.toknext

\* The records the loop after the switch tests, lines 686-693.
AtEndTouches(parser, tokens, null) ==
  IF null THEN {} ELSE OpenBelowTouches(tokens, parser.toknext - 1)

\* Every access of one call of jsmn_parse, as the pair of the index and of
\* parser->toknext at the time of the access.
RECURSIVE ParseTouches(_, _, _, _, _, _, _)
ParseTouches(parser, js, len, tokens, num_tokens, null, links) ==
  IF ~InBuffer(js, len, parser.pos)
  THEN {<<i, parser.toknext>> : i \in AtEndTouches(parser, tokens, null)}
  ELSE LET now == ToknextAfter(parser, js, len, tokens, num_tokens, null)
           here == {<<i, now>> :
                      i \in DispatchTouches(parser, js, len, tokens,
                                            num_tokens, null, links)}
           d == Dispatch(parser, js, len, tokens, num_tokens,
                         parser.toknext, null, links)
       IN  IF \E t \in here : t[1] < 0 \/ t[1] >= t[2] THEN here
           ELSE IF ~d.go THEN here
           ELSE here
                  \cup ParseTouches([d.parser EXCEPT !.pos = d.parser.pos + 1],
                                    js, len, d.tokens, num_tokens, null,
                                    links)

jsmn_init ==
  [pos |-> 0, toknext |-> 0, toksuper |-> JSMN_NEG,
   expected |-> JSMN_CONTAINER]

\* ------------------------------------------------------------ the caller
\* The bytes every buffer up to MaxLen is built from.
Alphabet ==
  {LBRACE, RBRACE, LBRACKET, RBRACKET, QUOTE, COLON, COMMA, CH_1,
   BACKSLASH, NUL, SPACE}

\* Longer documents the caller also feeds, byte by byte.
Doc_a1 == <<LBRACE, QUOTE, CH_a, QUOTE, COLON, CH_1, RBRACE>>
Doc_a1b2 ==
  <<LBRACE, QUOTE, CH_a, QUOTE, COLON, CH_1, COMMA,
    QUOTE, CH_b, QUOTE, COLON, CH_2, RBRACE>>
Doc_a_novalue == <<LBRACE, QUOTE, CH_a, QUOTE, COLON, RBRACE>>
Doc_a1_bare2 ==
  <<LBRACE, QUOTE, CH_a, QUOTE, COLON, CH_1, COMMA, CH_2, RBRACE>>
Doc_nested ==
  <<LBRACKET, LBRACE, QUOTE, CH_a, QUOTE, COLON, LBRACKET, CH_1, RBRACKET,
    RBRACE, COMMA, QUOTE, CH_b, QUOTE, RBRACKET>>
Doc_escapes ==
  <<LBRACKET, QUOTE, CH_a, BACKSLASH, QUOTE, BACKSLASH, CH_u, CH_1, CH_a,
    CH_F, CH_0, CH_b, QUOTE, RBRACKET>>

Doc_comma_close == <<LBRACKET, CH_1, COMMA, RBRACKET>>
Doc_a_arr_bare2 ==
  <<LBRACE, QUOTE, CH_a, QUOTE, COLON, LBRACKET, CH_1, RBRACKET, COMMA, CH_2,
    RBRACE>>
Doc_backslash_nul ==
  <<LBRACKET, QUOTE, BACKSLASH, NUL, QUOTE, RBRACKET>>

Docs ==
  {Doc_a1, Doc_a1b2, Doc_a_novalue, Doc_a1_bare2, Doc_nested, Doc_escapes,
   Doc_comma_close, Doc_a_arr_bare2, Doc_backslash_nul}

IsPrefix(p, d) == Len(p) <= Len(d) /\ SubSeq(d, 1, Len(p)) = p

\* The bytes the caller may append to the buffer js.
NextBytes(js) ==
  (IF Len(js) < MaxLen THEN Alphabet ELSE {})
    \cup {d[Len(js) + 1] : d \in {x \in Docs : Len(x) > Len(js) /\ IsPrefix(js, x)}}

PoolSizes == (0..MaxTokens) \cup {Ample}

VARIABLES
  js,          \* the caller's buffer; its declared length is Len(js)
  parser,      \* the jsmn_parser the caller retains
  tokens,      \* the records of the caller's pool allocated so far
  num_tokens,  \* the capacity of the pool passed with the last call
  null,        \* the last call passed tokens = NULL (a count-only run)
  links,       \* the build defines JSMN_PARENT_LINKS
  called,      \* jsmn_parse has been called on this parser
  r,           \* what the last call returned
  stops,       \* the stops (PART, NOMEM) the calls on this parser returned
  strayed,     \* the caller has left the documented way of resuming
  fate         \* "defined", or "undefined" after an access beyond the pool

vars ==
  <<js, parser, tokens, num_tokens, null, links, called, r, stops, strayed,
    fate>>

\* jsmn_init on a parser, an empty buffer and an empty pool.
Init ==
  /\ js = <<>>
  /\ parser = jsmn_init
  /\ tokens = <<>>
  /\ num_tokens = 0
  /\ null = FALSE
  /\ links \in BOOLEAN
  /\ called = FALSE
  /\ r = JSMN_SUCCESS
  /\ stops = {}
  /\ strayed = FALSE
  /\ fate = "defined"

\* The documented way of resuming: the caller goes on only after "not
\* enough tokens" or "more bytes expected"; JSMN_ERROR_INVAL and a count end
\* the parse.  The code does not test it: jsmn_parse carries out every call.
MayResume == ~called \/ r \in {JSMN_ERROR_PART, JSMN_ERROR_NOMEM}

\* What the model holds for the parser, the records and the return value
\* once the program has left defined behaviour: they can be anything.
Unknown == "unknown"

\* The caller appends one byte to the buffer.
Feed(c) ==
  /\ c \in NextBytes(js)
  /\ js' = Append(js, c)
  /\ strayed' = (strayed \/ fate # "defined" \/ ~MayResume)
  /\ UNCHANGED <<parser, tokens, num_tokens, null, links, called, r, stops,
                 fate>>

\* The accesses tokens[i] of a real call over a pool of n records.  The code
\* tests the capacity only where it allocates (jsmn_alloc_token), never
\* where it goes back to the records allocated before, so an access may lie
\* beyond the pool, at a record allocated under a larger capacity
\* (n <= i < toknext), which only a pool smaller than toknext allows.
Overruns(n, nl) ==
  /\ ~nl
  /\ n < parser.toknext
  /\ \E t \in ParseTouches(parser, js, Len(js), tokens, n, FALSE, links) :
       t[1] >= n /\ t[1] < t[2]

\* The caller calls jsmn_parse over the whole buffer, with a pool of
\* capacity n or, when nl, with tokens = NULL.  The call is carried out in
\* every state; strayed records that it, or a step before it, was not a
\* documented resumption: a call after JSMN_ERROR_INVAL or after a count, a
\* pool smaller than the one before, a real run turned into a dry run or
\* the reverse.  A call that overruns its pool is defined when the memory
\* passed is still the larger pool of an earlier call (the caller
\* understates num_tokens): it finds the records as they were left.  When
\* the memory ends with the pool (ends) the access is undefined behaviour:
\* what the call reads there, what its writes there overwrite, whether it
\* returns and what it returns depend on the build and on what lies behind
\* the pool, so the parser, the records and the return value are Unknown
\* from then on, and stay so in the calls that follow.
Call(n, nl) ==
  /\ nl => n = 0
  /\ \E ends \in BOOLEAN :
       /\ ends => fate = "defined" /\ Overruns(n, nl)
       /\ IF ends \/ fate # "defined"
          THEN /\ fate' = "undefined"
               /\ parser' = Unknown
               /\ tokens' = Unknown
               /\ r' = Unknown
               /\ num_tokens' = n
               /\ null' = nl
               /\ called' = TRUE
               /\ strayed' = TRUE
               /\ UNCHANGED <<js, links, stops>>
          ELSE /\ LET res == jsmn_parse(parser, js, Len(js), tokens, n, nl,
                                        links)
                  IN  /\ parser' = res.parser
                      /\ tokens' = res.tokens
                      /\ r' = res.r
                      /\ stops' =
                           (IF res.r \in {JSMN_ERROR_PART, JSMN_ERROR_NOMEM}
                            THEN stops \cup {res.r}
                            ELSE stops)
               /\ num_tokens' = n
               /\ null' = nl
               /\ called' = TRUE
               /\ strayed' = (\/ strayed
                              \/ ~MayResume
                              \/ called /\ (n < num_tokens \/ nl # null))
               /\ UNCHANGED <<js, links, fate>>

\* Every access of a call with defined behaviour is at a record allocated.
AccessesAtRecords ==
  fate = "defined"
    => \A n \in PoolSizes :
         \A t \in ParseTouches(parser, js, Len(js), tokens, n, FALSE, links) :
           t[1] >= 0 /\ t[1] < t[2]

Next ==
  \/ \E c \in Alphabet \cup {CH_a, CH_b, CH_2, CH_u, CH_F, CH_0} : Feed(c)
  \/ \E n \in PoolSizes, nl \in BOOLEAN : Call(n, nl)

Spec == Init /\ [][Next]_vars

\* ------------------------------------------------------------ claims
\* One call of jsmn_parse over the whole of d by a freshly initialised
\* parser with an empty pool of capacity cap.
FreshParse(d, cap, nl, lk) ==
  jsmn_parse(jsmn_init, d, Len(d), <<>>, cap, nl, lk)

\* The step is a call of jsmn_parse (Feed changes js, Call does not).
IsAnyCall == js' = js /\ called'

\* The step is a call of one documented run: the first call on the parser
\* or a resumption after JSMN_ERROR_PART or JSMN_ERROR_NOMEM, as every call
\* before it, with the pool and the kind of run (real or dry) kept.
IsCall == IsAnyCall /\ ~strayed'

\* The step is the first call on the parser: the parser is as jsmn_init
\* left it and the pool is empty.
IsFirstCall == IsCall /\ ~called

\* A recogniser of JSON texts (RFC 8259) whose top level is an object or an
\* array and whose numbers are integers: every buffer it accepts is a
\* well-formed document.  At(d, i) is d[i], or -1 past the end.
At(d, i) == IF i < Len(d) THEN d[i + 1] ELSE -1

RECURSIVE JsonWs(_, _)
JsonWs(d, i) ==
  IF At(d, i) \in {SPACE, TAB, LF, CR} THEN JsonWs(d, i + 1) ELSE i

\* The index after the string whose content starts at i, or -1.
RECURSIVE JsonChars(_, _)
JsonChars(d, i) ==
  IF At(d, i) = QUOTE THEN i + 1
  ELSE IF At(d, i) = BACKSLASH
  THEN IF IsEscape(At(d, i + 1)) THEN JsonChars(d, i + 2)
       ELSE IF /\ At(d, i + 1) = CH_u
               /\ \A k \in 2..5 : At(d, i + k) # -1 /\ IsHex(At(d, i + k))
       THEN JsonChars(d, i + 6)
       ELSE -1
  ELSE IF At(d, i) < SPACE THEN -1
  ELSE JsonChars(d, i + 1)

RECURSIVE JsonDigits(_, _)
JsonDigits(d, i) ==
  IF At(d, i) >= CH_0 /\ At(d, i) <= CH_9 THEN JsonDigits(d, i + 1) ELSE i

\* The index after the integer that starts at i, or -1.
JsonNumber(d, i) ==
  LET j == IF At(d, i) = MINUS THEN i + 1 ELSE i
  IN  IF At(d, j) = CH_0 THEN j + 1
      ELSE IF At(d, j) > CH_0 /\ At(d, j) <= CH_9 THEN JsonDigits(d, j)
      ELSE -1

\* The index after the value that starts at i, or -1; JsonItems reads the
\* rest of a container after its opening bracket or after a comma.
RECURSIVE JsonValue(_, _)
RECURSIVE JsonItems(_, _, _, _)
JsonItems(d, i, obj, first) ==
  LET a == JsonWs(d, i)
      k == IF At(d, a) = QUOTE THEN JsonChars(d, a + 1) ELSE -1
      c == IF k = -1 THEN -1 ELSE JsonWs(d, k)
      v == IF ~obj THEN JsonValue(d, a)
           ELSE IF c # -1 /\ At(d, c) = COLON
           THEN JsonValue(d, JsonWs(d, c + 1))
           ELSE -1
      e == IF v = -1 THEN -1 ELSE JsonWs(d, v)
  IN  IF first /\ At(d, a) = (IF obj THEN RBRACE ELSE RBRACKET) THEN a + 1
      ELSE IF e = -1 THEN -1
      ELSE IF At(d, e) = COMMA THEN JsonItems(d, e + 1, obj, FALSE)
      ELSE IF At(d, e) = (IF obj THEN RBRACE ELSE RBRACKET) THEN e + 1
      ELSE -1

JsonValue(d, i) ==
  IF At(d, i) = LBRACE THEN JsonItems(d, i + 1, TRUE, TRUE)
  ELSE IF At(d, i) = LBRACKET THEN JsonItems(d, i + 1, FALSE, TRUE)
  ELSE IF At(d, i) = QUOTE THEN JsonChars(d, i + 1)
  ELSE JsonNumber(d, i)

WellFormed(d) ==
  LET a == JsonWs(d, 0)
      e == JsonValue(d, a)
  IN  /\ At(d, a) \in {LBRACE, LBRACKET}
      /\ e # -1
      /\ JsonWs(d, e) = Len(d)

\* C1: for every well-formed document, a dry run (tokens = NULL) by a
\* freshly initialised parser returns a non-negative count, the count a real
\* run by a fresh parser with enough capacity returns, and writes no token
\* record; over {"a":1} it returns 3.
C1_DryRunCountsLikeRealRun ==
  [][(IsFirstCall /\ null' /\ WellFormed(js))
       => /\ r' >= 0
          /\ r' = FreshParse(js, Ample, FALSE, links).r
          /\ tokens' = <<>>
          /\ (js = Doc_a1 => r' = 3)]_vars

\* C2: a real run that was stopped by PART or NOMEM and re-invoked on a
\* longer buffer or a larger pool until it succeeds returns the count and
\* leaves the tokens that one call over the whole buffer by a fresh parser
\* with enough capacity returns and leaves.
C2_ResumptionEquivalence ==
  (called /\ ~strayed /\ ~null /\ r >= 0)
    => LET one == FreshParse(js, Ample, FALSE, links)
       IN  r = one.r /\ tokens = one.tokens

\* C2 happens: {"a":1} was parsed to a count of 3 after both a truncated stop
\* and a capacity stop.
C2_Witness ==
  /\ called /\ ~strayed /\ ~null /\ r = 3 /\ js = Doc_a1
  /\ stops = {JSMN_ERROR_PART, JSMN_ERROR_NOMEM}

\* The bytes that start a token: a bracket that opens a container, a quote,
\* the first byte of a primitive.
IsTokenStart(c) == c \in {LBRACE, LBRACKET, QUOTE} \/ IsPrimitiveStart(c)

\* C3: whenever a call of jsmn_parse whose behaviour is defined returns
\* JSMN_ERROR_NOMEM, whatever the calls before it were, it was a real run, parser->pos is the offset of the
\* first byte of the token that found no room, and the parser and every token
\* record are as the bytes before that token leave them: they are what the
\* same call over the text cut at that byte leaves, toknext has reached the
\* capacity, and no record was changed by the token.  In a documented run
\* they are also what one call of a fresh parser over those bytes leaves.
C3_NoMemLeavesTokenStart ==
  [][(IsAnyCall /\ fate' = "defined" /\ r' = JSMN_ERROR_NOMEM)
       => LET before == jsmn_parse(parser, js, parser'.pos, tokens,
                                   num_tokens', FALSE, links)
              fresh == FreshParse(SubSeq(js, 1, parser'.pos), Ample, FALSE,
                                  links)
          IN  /\ ~null'
              /\ parser'.pos < Len(js)
              /\ IsTokenStart(Byte(js, parser'.pos))
              /\ parser'.toknext >= num_tokens'
              /\ parser' = before.parser
              /\ tokens' = before.tokens
              /\ ~strayed' => /\ parser'.toknext = num_tokens'
                              /\ parser' = fresh.parser
                              /\ tokens' = fresh.tokens]_vars

\* C3 happens for a container, a string and a primitive.
C3_Witness ==
  /\ called /\ ~strayed /\ r = JSMN_ERROR_NOMEM /\ js = Doc_a1
  /\ parser.pos = 5 /\ parser.toknext = 2

\* The three tokens of {"a":1}.
Tokens_a1(lk) ==
  << [type |-> BitOr(JSMN_OBJECT, JSMN_VALUE), start |-> 0, end |-> 7,
      size |-> 1, parent |-> JSMN_NEG],
     [type |-> BitOr(JSMN_STRING, JSMN_KEY), start |-> 2, end |-> 3,
      size |-> 1, parent |-> IF lk THEN 0 ELSE JSMN_NEG],
     [type |-> BitOr(JSMN_PRIMITIVE, JSMN_VALUE), start |-> 5, end |-> 6,
      size |-> 0, parent |-> IF lk THEN 1 ELSE JSMN_NEG] >>

\* C4: a fresh parser with a pool of capacity 3 or more parses {"a":1} to the
\* count 3 and the tokens OBJECT [0,7) of size 1, STRING KEY [2,3) and
\* PRIMITIVE VALUE [5,6), in this order.
C4_ParsesA1 ==
  [][(IsFirstCall /\ ~null' /\ js = Doc_a1 /\ num_tokens' >= 3)
       => r' = 3 /\ tokens' = Tokens_a1(links)]_vars

\* C4 happens: the first call on the parser was over {"a":1}.
C4_Witness ==
  /\ called /\ ~strayed /\ ~null /\ stops = {} /\ js = Doc_a1 /\ r = 3 /\ num_tokens >= 3

\* The brackets still open at the end of d: the opening brackets less the
\* closing ones, read outside strings and primitives (a primitive runs up to
\* its terminating byte, whatever bytes it holds).  mode is "", "s" inside a
\* string and "p" inside a primitive.
RECURSIVE OpenBrackets(_, _, _)
OpenBrackets(d, i, mode) ==
  IF i >= Len(d) THEN 0
  ELSE IF mode = "s"
  THEN IF Byte(d, i) = BACKSLASH THEN OpenBrackets(d, i + 2, "s")
       ELSE OpenBrackets(d, i + 1, IF Byte(d, i) = QUOTE THEN "" ELSE "s")
  ELSE IF mode = "p" /\ ~IsPrimitiveEnd(Byte(d, i))
  THEN OpenBrackets(d, i + 1, "p")
  ELSE IF Byte(d, i) = QUOTE THEN OpenBrackets(d, i + 1, "s")
  ELSE IF IsPrimitiveStart(Byte(d, i)) THEN OpenBrackets(d, i + 1, "p")
  ELSE (IF Byte(d, i) \in {LBRACE, LBRACKET} THEN 1
        ELSE IF Byte(d, i) \in {RBRACE, RBRACKET} THEN -1
        ELSE 0) + OpenBrackets(d, i + 1, "")

\* The bytes before the first null byte.
RECURSIVE Meaningful(_)
Meaningful(d) ==
  IF d = <<>> \/ Head(d) = NUL THEN <<>>
  ELSE <<Head(d)>> \o Meaningful(Tail(d))

Doc_a1_unclosed == SubSeq(Doc_a1, 1, 6)

\* C5: a real run returns a count only when every container that was opened
\* has been closed: whatever the calls before it were, a real call whose
\* behaviour is defined and that returns a count leaves no token open, and in a documented run the brackets
\* of the text balance; over {"a":1 it returns JSMN_ERROR_PART.
C5_NoCountWhileOpen ==
  [][(IsAnyCall /\ fate' = "defined" /\ ~null')
       => /\ r' >= 0 => \A i \in 1..Len(tokens') : ~IsOpen(tokens'[i])
          /\ (~strayed' /\ r' >= 0)
               => OpenBrackets(Meaningful(js), 0, "") = 0
          /\ (~strayed' /\ js = Doc_a1_unclosed /\ num_tokens' >= 3)
               => r' = JSMN_ERROR_PART]_vars

\* C5 happens: the call over {"a":1 stopped with the object still open.
C5_Witness ==
  /\ called /\ ~strayed /\ ~null /\ js = Doc_a1_unclosed /\ r = JSMN_ERROR_PART
  /\ num_tokens >= 3 /\ IsOpen(tokens[1])

\* The children of a container, read off the spans: the tokens that lie
\* inside it and inside no container nested in it.
IsContainer(t) == jsmn_is_type(t, JSMN_CONTAINER) # 0

Encloses(toks, k, t) ==
  /\ IsContainer(toks[k])
  /\ toks[k].start < toks[t].start
  /\ toks[t].end <= toks[k].end

Children(toks, k) ==
  {t \in 1..Len(toks) :
     /\ Encloses(toks, k, t)
     /\ \A m \in 1..Len(toks) :
          Encloses(toks, m, t) => toks[m].start <= toks[k].start}

IsLeafValue(t) ==
  /\ jsmn_is_type(t, JSMN_VALUE) # 0
  /\ jsmn_is_type(t, BitOr(JSMN_STRING, JSMN_PRIMITIVE)) # 0

SizesAsDocumented(toks) ==
  /\ \A k \in 1..Len(toks) :
       /\ jsmn_is_type(toks[k], JSMN_OBJECT) # 0
            => /\ toks[k].size =
                    Cardinality({t \in Children(toks, k) :
                                   jsmn_is_type(toks[t], JSMN_KEY) # 0})
               /\ toks[k].size =
                    Cardinality({t \in Children(toks, k) :
                                   jsmn_is_type(toks[t], JSMN_VALUE) # 0})
       /\ jsmn_is_type(toks[k], JSMN_ARRAY) # 0
            => toks[k].size = Cardinality(Children(toks, k))
       /\ jsmn_is_type(toks[k], JSMN_KEY) # 0 => toks[k].size = 1
       /\ IsLeafValue(toks[k]) => toks[k].size = 0
  /\ \A i, j \in 1..Len(toks) : i < j => toks[i].start < toks[j].start

Shape(t) == <<t.type, t.start, t.end, t.size>>

Shapes_a1b2 ==
  <<  <<BitOr(JSMN_OBJECT, JSMN_VALUE), 0, 13, 2>>,
      <<BitOr(JSMN_STRING, JSMN_KEY), 2, 3, 1>>,
      <<BitOr(JSMN_PRIMITIVE, JSMN_VALUE), 5, 6, 0>>,
      <<BitOr(JSMN_STRING, JSMN_KEY), 8, 9, 1>>,
      <<BitOr(JSMN_PRIMITIVE, JSMN_VALUE), 11, 12, 0>>  >>

\* C6: after a successful real run the size of an object token is the number
\* of its key/value pairs, the size of an array token the number of its
\* elements, a key has size 1, a string or primitive value size 0, and the
\* tokens are in source order; {"a":1,"b":2} gives an OBJECT of size 2
\* followed by KEY a, VALUE 1, KEY b, VALUE 2.
C6_SizesCountChildren ==
  (called /\ ~strayed /\ ~null /\ r >= 0)
    => /\ SizesAsDocumented(tokens)
       /\ js = Doc_a1b2
            => [i \in 1..Len(tokens) |-> Shape(tokens[i])] = Shapes_a1b2

\* The same statement over the texts that are well-formed JSON.
C6_SizesOnWellFormed ==
  (called /\ ~strayed /\ ~null /\ r >= 0 /\ WellFormed(Meaningful(js)))
    => /\ SizesAsDocumented(tokens)
       /\ js = Doc_a1b2
            => [i \in 1..Len(tokens) |-> Shape(tokens[i])] = Shapes_a1b2

\* The lexemes of a text, read without the parser: <<"s", a, b>> for a
\* string whose quotes are at a - 1 and b, <<"p", a, b>> for a literal that
\* runs from a to its terminating byte at b, and <<"c", a, b>> for a pair of
\* brackets, the opening one at a and the one that closes it at b - 1.
RECURSIVE QuoteAfter(_, _)
QuoteAfter(d, i) ==
  IF i >= Len(d) THEN Len(d)
  ELSE IF Byte(d, i) = QUOTE THEN i
  ELSE IF Byte(d, i) = BACKSLASH THEN QuoteAfter(d, i + 2)
  ELSE QuoteAfter(d, i + 1)

RECURSIVE LiteralEnd(_, _)
LiteralEnd(d, i) ==
  IF i >= Len(d) THEN Len(d)
  ELSE IF Byte(d, i) \in {SPACE, TAB, LF, CR, COMMA, RBRACKET, RBRACE} THEN i
  ELSE LiteralEnd(d, i + 1)

RECURSIVE Lexemes(_, _, _, _)
Lexemes(d, i, stack, acc) ==
  IF i >= Len(d) THEN acc
  ELSE IF Byte(d, i) = QUOTE
  THEN LET e == QuoteAfter(d, i + 1)
       IN  IF e >= Len(d) THEN acc
           ELSE Lexemes(d, e + 1, stack, acc \cup {<<"s", i + 1, e>>})
  ELSE IF IsPrimitiveStart(Byte(d, i))
  THEN LET e == LiteralEnd(d, i)
       IN  IF e >= Len(d) THEN acc
           ELSE Lexemes(d, e, stack, acc \cup {<<"p", i, e>>})
  ELSE IF Byte(d, i) \in {LBRACE, LBRACKET}
  THEN Lexemes(d, i + 1, <<i>> \o stack, acc)
  ELSE IF Byte(d, i) \in {RBRACE, RBRACKET} /\ stack # <<>>
  THEN Lexemes(d, i + 1, Tail(stack), acc \cup {<<"c", Head(stack), i + 1>>})
  ELSE Lexemes(d, i + 1, stack, acc)

SpanAsDocumented(d, t) ==
  /\ t.start <= t.end /\ t.end <= Len(d)
  /\ jsmn_is_type(t, JSMN_STRING) # 0
       => <<"s", t.start, t.end>> \in Lexemes(d, 0, <<>>, {})
  /\ jsmn_is_type(t, JSMN_PRIMITIVE) # 0
       => <<"p", t.start, t.end>> \in Lexemes(d, 0, <<>>, {})
  /\ IsContainer(t)
       => /\ <<"c", t.start, t.end>> \in Lexemes(d, 0, <<>>, {})
          /\ Byte(d, t.start) =
               (IF jsmn_is_type(t, JSMN_OBJECT) # 0 THEN LBRACE ELSE LBRACKET)
          /\ Byte(d, t.end - 1) =
               (IF jsmn_is_type(t, JSMN_OBJECT) # 0 THEN RBRACE ELSE RBRACKET)

\* C7: every token of a successful real run has start <= end <= the length
\* of the buffer; a STRING token spans the text between its quotes, a
\* PRIMITIVE token the literal up to its terminating byte, and an OBJECT or
\* ARRAY token runs from its opening bracket to the bracket that closes it.
C7_SpansSliceTheText ==
  (called /\ ~strayed /\ ~null /\ r >= 0)
    => \A i \in 1..Len(tokens) : SpanAsDocumented(js, tokens[i])

\* C7 happens: the run over Doc_escapes has produced the array and the
\* string with its two escapes.
C7_Witness ==
  /\ called /\ ~strayed /\ ~null /\ js = Doc_escapes /\ r = 2
  /\ tokens[2].start = 2 /\ tokens[2].end = 12

\* The containers that are open at position p of a text, innermost first,
\* read without the parser: for each the position of its opening bracket and
\* whether a colon has been read in it since its last comma.
RECURSIVE Frames(_, _, _, _)
Frames(d, i, p, stack) ==
  IF i >= p \/ i >= Len(d) THEN stack
  ELSE IF Byte(d, i) = QUOTE
  THEN Frames(d, QuoteAfter(d, i + 1) + 1, p, stack)
  ELSE IF IsPrimitiveStart(Byte(d, i))
  THEN Frames(d, LiteralEnd(d, i), p, stack)
  ELSE IF Byte(d, i) \in {LBRACE, LBRACKET}
  THEN Frames(d, i + 1, p, <<[at |-> i, colon |-> FALSE]>> \o stack)
  ELSE IF Byte(d, i) \in {RBRACE, RBRACKET} /\ stack # <<>>
  THEN Frames(d, i + 1, p, Tail(stack))
  ELSE IF Byte(d, i) \in {COLON, COMMA} /\ stack # <<>>
  THEN Frames(d, i + 1, p,
              <<[Head(stack) EXCEPT !.colon = (Byte(d, i) = COLON)]>>
                \o Tail(stack))
  ELSE Frames(d, i + 1, p, stack)

\* The position of the first byte of a token's lexeme.
LexemeStart(t) ==
  IF jsmn_is_type(t, JSMN_STRING) # 0 THEN t.start - 1 ELSE t.start

FramesOf(d, t) == Frames(d, 0, LexemeStart(t), <<>>)

\* The containers that enclose a token, and these plus the keys whose value
\* the token is or lies in.
ContainerDepth(d, t) == Len(FramesOf(d, t))

TreeDepth(d, t) ==
  Len(FramesOf(d, t))
    + Cardinality({k \in 1..Len(FramesOf(d, t)) : FramesOf(d, t)[k].colon})

\* The number of parent links from token i (counted from 0) to a token
\* without parent, and that token.
RECURSIVE Hops(_, _)
Hops(toks, i) ==
  IF Tok(toks, i).parent = JSMN_NEG THEN 0
  ELSE 1 + Hops(toks, Tok(toks, i).parent)

RECURSIVE Root(_, _)
Root(toks, i) ==
  IF Tok(toks, i).parent = JSMN_NEG THEN i
  ELSE Root(toks, Tok(toks, i).parent)

\* C8 as stated: with parent links, after a successful real run the first
\* token has no parent, every other token's parent is an earlier token, and
\* the parent links lead from a token to the first token in as many steps as
\* containers enclose the token.
C8_ParentLinksCountContainers ==
  (called /\ ~strayed /\ ~null /\ links /\ r >= 0 /\ tokens # <<>>)
    => /\ Tok(tokens, 0).parent = JSMN_NEG
       /\ \A i \in 1..(Len(tokens) - 1) :
            /\ Tok(tokens, i).parent \in 0..(i - 1)
            /\ Root(tokens, i) = 0
            /\ Hops(tokens, i) = ContainerDepth(js, Tok(tokens, i))

\* C8, amended: with parent links, after a successful real run a token that
\* no container encloses has no parent and every other token's parent is an
\* earlier token: its key when the token is the value that follows a colon,
\* else the innermost container that encloses it.  So the parent links lead
\* from a token to a token without parent in as many steps as containers
\* enclose the token plus keys whose value the token is or lies in.
C8_ParentLinksCountKeysToo ==
  (called /\ ~strayed /\ ~null /\ links /\ r >= 0)
    => \A i \in 0..(Len(tokens) - 1) :
         LET t == Tok(tokens, i)
             fr == FramesOf(js, t)
         IN  /\ fr = <<>> <=> t.parent = JSMN_NEG
             /\ fr # <<>>
                  => /\ t.parent \in 0..(i - 1)
                     /\ IF Head(fr).colon
                        THEN jsmn_is_type(Tok(tokens, t.parent), JSMN_KEY) # 0
                        ELSE Tok(tokens, t.parent).start = Head(fr).at
             /\ Hops(tokens, i) = TreeDepth(js, t)

\* C8 happens: the run over [{"a":[1]},"b"] with parent links has linked the
\* 1 through its array and its key to the object and the outer array.
C8_Witness ==
  /\ called /\ ~strayed /\ ~null /\ links /\ js = Doc_nested /\ r = 6
  /\ Hops(tokens, 4) = 4 /\ Hops(tokens, 5) = 1

\* The real run that resumes the parser a step leaves over the bytes it has
\* consumed followed by the one byte c.
NextByte(c) ==
  jsmn_parse(parser', SubSeq(js', 1, parser'.pos) \o <<c>>, parser'.pos + 1,
             tokens', Ample, FALSE, links')

\* The innermost container that the consumed bytes leave open is of the kind
\* that the bracket c closes.
ClosesInnermost(c) ==
  LET fr == Frames(js', 0, parser'.pos, <<>>)
  IN  /\ fr # <<>>
      /\ Byte(js', Head(fr).at) = (IF c = RBRACE THEN LBRACE ELSE LBRACKET)

Doc_bad_close == <<LBRACKET, CH_1, RBRACE>>

\* C9: a real run accepts a closing bracket exactly where CLOSE is in the
\* expected mask and the innermost container still open is of the bracket's
\* kind, and returns JSMN_ERROR_INVAL for it anywhere else; so the calls over
\* {"a":} and [1,] and [1} return JSMN_ERROR_INVAL.
C9_CloserNeedsCloseAndMatch ==
  [][/\ (IsCall /\ ~null' /\ r' # JSMN_ERROR_INVAL)
          => \A c \in {RBRACE, RBRACKET} :
               NextByte(c).r # JSMN_ERROR_INVAL
                 <=> /\ jsmn_is_expected(parser', JSMN_CLOSE) # 0
                     /\ ClosesInnermost(c)
     /\ (/\ IsCall /\ ~null' /\ num_tokens' = Ample
         /\ js \in {Doc_a_novalue, Doc_comma_close, Doc_bad_close})
          => r' = JSMN_ERROR_INVAL]_vars

\* C9 happens: a real run stopped inside {"a": and the call over {"a":} then
\* returned JSMN_ERROR_INVAL.
C9_Witness ==
  /\ called /\ ~strayed /\ ~null /\ js = Doc_a_novalue /\ r = JSMN_ERROR_INVAL
  /\ stops # {} /\ parser.pos = 5

\* C10: a null byte in the buffer is equivalent to the end of the buffer: a
\* call over a buffer, dry or real, from any state of the parser, returns the
\* value and leaves the parser and the tokens that the call over the bytes
\* before the first null byte, with their number as length, returns and
\* leaves.
C10_NulEndsTheBuffer ==
  [][IsCall
       => LET b == Meaningful(js)
              res == jsmn_parse(parser, b, Len(b), tokens, num_tokens',
                                null', links)
          IN  /\ r' = res.r
              /\ parser' = res.parser
              /\ tokens' = res.tokens]_vars

\* The number of tokens in the first p bytes of a text, read without the
\* parser: its opening brackets, its strings and its literals.
RECURSIVE TokensIn(_, _, _)
TokensIn(d, i, p) ==
  IF i >= p \/ i >= Len(d) THEN 0
  ELSE IF Byte(d, i) = QUOTE
  THEN IF QuoteAfter(d, i + 1) >= p THEN 0
       ELSE 1 + TokensIn(d, QuoteAfter(d, i + 1) + 1, p)
  ELSE IF IsPrimitiveStart(Byte(d, i))
  THEN IF LiteralEnd(d, i) >= p THEN 0
       ELSE 1 + TokensIn(d, LiteralEnd(d, i), p)
  ELSE (IF Byte(d, i) \in {LBRACE, LBRACKET} THEN 1 ELSE 0)
         + TokensIn(d, i + 1, p)

\* C11: every call that returns a count returns the number of tokens
\* produced so far on this parser, the tokens of the earlier calls that
\* stopped with NOMEM or PART included: parser->toknext in a real run, the
\* number of tokens of the whole text scanned so far in a dry run.
C11_CountIsTotalSoFar ==
  [][(IsCall /\ r' >= 0)
       => IF null'
          THEN r' = TokensIn(Meaningful(js), 0, Len(Meaningful(js)))
          ELSE r' = parser'.toknext /\ r' = Len(tokens')]_vars

\* The same statement over the first call on a parser and the real runs.
C11_CountOfFirstCallOrRealRun ==
  [][(IsCall /\ r' >= 0 /\ (~null' \/ ~called))
       => IF null'
          THEN r' = TokensIn(Meaningful(js), 0, Len(Meaningful(js)))
          ELSE r' = parser'.toknext /\ r' = Len(tokens')]_vars

\* What the text d makes of a string, read without the parser from the byte
\* i after its opening quote: "ok" at its closing quote, "inval" at a
\* backslash followed by a byte that starts no escape or at a \u followed by
\* fewer than four hex digits and then another byte, "part" when the text
\* ends first.
HexDigits ==
  (CH_0..CH_9) \cup (CH_A..CH_F) \cup (CH_a..CH_f)

RECURSIVE HexRun(_, _, _)
HexRun(d, i, k) ==
  IF k = 4 \/ i >= Len(d) \/ Byte(d, i) \notin HexDigits THEN k
  ELSE HexRun(d, i + 1, k + 1)

RECURSIVE StringFate(_, _)
StringFate(d, i) ==
  IF i >= Len(d) THEN "part"
  ELSE IF Byte(d, i) = QUOTE THEN "ok"
  ELSE IF Byte(d, i) # BACKSLASH THEN StringFate(d, i + 1)
  ELSE IF i + 1 >= Len(d) THEN "part"
  ELSE IF Byte(d, i + 1) \in
            {QUOTE, BACKSLASH, SLASH, CH_b, CH_f, CH_n, CH_r, CH_t}
  THEN StringFate(d, i + 2)
  ELSE IF Byte(d, i + 1) # CH_u THEN "inval"
  ELSE LET k == HexRun(d, i + 2, 0)
       IN  IF k = 4 THEN StringFate(d, i + 6)
           ELSE IF i + 2 + k >= Len(d) THEN "part"
           ELSE "inval"

\* The call starts on the opening quote of a string that it scans.
StartsOnString ==
  /\ IsCall
  /\ parser.pos < Len(Meaningful(js))
  /\ Byte(js, parser.pos) = QUOTE
  /\ null' \/ jsmn_is_expected(parser, JSMN_STRING) # 0

StringStopsAsDocumented(d) ==
  /\ StringFate(d, parser.pos + 1) = "inval" => r' = JSMN_ERROR_INVAL
  /\ StringFate(d, parser.pos + 1) = "part" => r' = JSMN_ERROR_PART
  /\ StringFate(d, parser.pos + 1) # "ok"
       => /\ parser'.pos = parser.pos
          /\ parser'.toknext = parser.toknext
          /\ tokens' = tokens

\* C12: a call that scans a string returns JSMN_ERROR_INVAL when the string
\* holds a backslash followed by a byte other than " \ / b f n r t u or a \u
\* followed by fewer than four hex digits and a non-hex byte, and
\* JSMN_ERROR_PART when the buffer ends before the closing quote; both leave
\* parser->pos on the opening quote and allocate no token.
C12_StringScannerStops ==
  [][StartsOnString => StringStopsAsDocumented(Meaningful(js))]_vars

\* The same statement over the buffers without null byte.
C12_StringScannerStopsWithoutNul ==
  [][(StartsOnString /\ Meaningful(js) = js)
       => StringStopsAsDocumented(js)]_vars

\* The opening bracket of the innermost container that the consumed bytes
\* leave open, NUL when there is none.
InnermostOpen ==
  LET fr == Frames(js', 0, parser'.pos, <<>>)
  IN  IF fr = <<>> THEN NUL ELSE Byte(js', Head(fr).at)

\* The expected mask that the claim gives for after a comma.
AfterCommaAsDocumented(opener) ==
  IF opener = LBRACE THEN JSMN_STRING ELSE JSMN_ANY_TYPE

\* C13: in a real run, after an accepted comma the expected mask is exactly
\* {STRING} when the enclosing container is an OBJECT and exactly {OBJECT,
\* ARRAY, STRING, PRIMITIVE} when it is an ARRAY; so the calls over {"a":1,2}
\* and {"a":[1],2} return JSMN_ERROR_INVAL.
C13_CommaInObjectExpectsKey ==
  [][/\ (/\ IsCall /\ ~null' /\ r' # JSMN_ERROR_INVAL
         /\ InnermostOpen # NUL
         /\ NextByte(COMMA).r # JSMN_ERROR_INVAL)
          => NextByte(COMMA).parser.expected
               = AfterCommaAsDocumented(InnermostOpen)
     /\ (/\ IsCall /\ ~null' /\ num_tokens' = Ample
         /\ js \in {Doc_a1_bare2, Doc_a_arr_bare2})
          => r' = JSMN_ERROR_INVAL]_vars

\* The same statement over the commas in arrays.
C13_CommaInArrayExpectsValue ==
  [][(/\ IsCall /\ ~null' /\ r' # JSMN_ERROR_INVAL
      /\ InnermostOpen = LBRACKET
      /\ NextByte(COMMA).r # JSMN_ERROR_INVAL)
       => NextByte(COMMA).parser.expected = JSMN_ANY_TYPE]_vars

Doc_two_objects == <<LBRACE, RBRACE, LBRACE, RBRACE>>
Doc_two_arrays == <<LBRACKET, CH_1, RBRACKET, LBRACKET, CH_2, RBRACKET>>

\* The tokens that no container of the text encloses.
TopLevelTokens ==
  {i \in 1..Len(tokens') : FramesOf(js', tokens'[i]) = <<>>}

\* The bytes that are not whitespace and do not end the buffer.
FurtherBytes ==
  {LBRACE, LBRACKET, RBRACE, RBRACKET, QUOTE, COLON, COMMA, MINUS, CH_0,
   CH_1, CH_t, CH_f, CH_n, CH_a, BACKSLASH}

RejectedAfterDocument(bytes) ==
  (IsCall /\ ~null' /\ r' > 0)
    => \A c \in bytes : NextByte(c).r = JSMN_ERROR_INVAL

\* C14: in a real run a document is exactly one top-level object or array:
\* once the closing bracket of the top-level container has been accepted,
\* every further byte that is not whitespace makes jsmn_parse return
\* JSMN_ERROR_INVAL, so {}{} and [1][2] are rejected and a successful parse
\* has exactly one token that no container encloses.
C14_OneTopLevelContainer ==
  [][/\ RejectedAfterDocument(FurtherBytes)
     /\ (IsCall /\ ~null' /\ r' > 0) => Cardinality(TopLevelTokens) = 1
     /\ (IsCall /\ ~null' /\ r' > 0)
          => \A d \in {Doc_two_objects, Doc_two_arrays} :
               IsPrefix(js, d)
                 => jsmn_parse(parser', d, Len(d), tokens', Ample, FALSE,
                               links).r = JSMN_ERROR_INVAL]_vars

\* The same statement over the further bytes that open no container and are
\* no comma.
C14_NoValueAfterDocument ==
  [][RejectedAfterDocument(FurtherBytes \ {LBRACE, LBRACKET, COMMA})]_vars

\* The dry run that resumes the parser over the bytes it has consumed
\* followed by the bytes more.
DryNext(more) ==
  jsmn_parse(parser', SubSeq(js', 1, parser'.pos) \o more,
             parser'.pos + Len(more), tokens', 0, TRUE, links')

\* A token or separator each, as the bytes that make the parser accept or
\* reject it: { [ "" 1 followed by a blank, a comma, a colon.
TokensAndSeparators ==
  {<<LBRACE>>, <<LBRACKET>>, <<QUOTE, QUOTE>>, <<CH_1, SPACE>>, <<COMMA>>,
   <<COLON>>}

IsDryCall == IsCall /\ null' /\ r' # JSMN_ERROR_INVAL

Doc_mismatch == <<LBRACKET, RBRACE>>
Doc_closer_only == <<RBRACKET>>

\* C15: in a dry run the brackets are still matched, a closing
\* bracket that does not close the innermost open container or that has no
\* open container returns JSMN_ERROR_INVAL, as in [} and ], while no token
\* and no separator is tested against the expected mask.
C15_DryRunMatchesBrackets ==
  [][/\ IsDryCall
          => /\ \A c \in {RBRACE, RBRACKET} :
                  ~ClosesInnermost(c)
                    => DryNext(<<c>>).r = JSMN_ERROR_INVAL
             /\ \A more \in TokensAndSeparators :
                  DryNext(more).r # JSMN_ERROR_INVAL
     /\ (IsCall /\ null' /\ js \in {Doc_mismatch, Doc_closer_only})
          => r' = JSMN_ERROR_INVAL]_vars

Doc_comma_first == <<COMMA, LBRACKET, CH_1, RBRACKET>>
Doc_comma_last == <<LBRACKET, CH_1, RBRACKET, COMMA>>

\* The call of a real run has left a parser that does not expect a comma.
NoDelimiterExpected ==
  /\ IsCall /\ ~null' /\ r' # JSMN_ERROR_INVAL
  /\ jsmn_is_expected(parser', JSMN_DELIMITER) = 0

\* C16: in a real run every comma is tested against the expected mask: in
\* every state in which DELIMITER is not expected, the states without open
\* container included, a comma makes jsmn_parse return JSMN_ERROR_INVAL, as
\* in ,[1] and [1], .
C16_CommaNeedsDelimiter ==
  [][NoDelimiterExpected
       => /\ NextByte(COMMA).r = JSMN_ERROR_INVAL
          /\ \A d \in {Doc_comma_first, Doc_comma_last} :
               IsPrefix(js, d)
                 => jsmn_parse(parser', d, Len(d), tokens', Ample, FALSE,
                               links).r = JSMN_ERROR_INVAL]_vars

\* The same statement over the states in which a container is open.
C16_CommaInContainerNeedsDelimiter ==
  [][(NoDelimiterExpected /\ InnermostOpen # NUL)
       => NextByte(COMMA).r = JSMN_ERROR_INVAL]_vars

\* The real run that resumes the parser, with a pool of capacity cap, over
\* the bytes it has consumed followed by the bytes more.
RealNext(more, cap) ==
  jsmn_parse(parser', SubSeq(js', 1, parser'.pos) \o more,
             parser'.pos + Len(more), tokens', cap, FALSE, links')

\* The category of the token that the bytes more start.
CategoryOf(more) ==
  IF Head(more) = LBRACE THEN JSMN_OBJECT
  ELSE IF Head(more) = LBRACKET THEN JSMN_ARRAY
  ELSE IF Head(more) = QUOTE THEN JSMN_STRING
  ELSE JSMN_PRIMITIVE

NoMemOnlyIfExpected(tokenBytes) ==
  (IsCall /\ ~null' /\ r' # JSMN_ERROR_INVAL)
    => \A more \in tokenBytes :
         \A cap \in {parser'.toknext, Ample} :
           /\ jsmn_is_expected(parser', CategoryOf(more)) = 0
                => RealNext(more, cap).r = JSMN_ERROR_INVAL
           /\ RealNext(more, cap).r = JSMN_ERROR_NOMEM
                => jsmn_is_expected(parser', CategoryOf(more)) # 0

Doc_open_unexpected == <<LBRACKET, CH_1, SPACE, LBRACKET>>

\* C17: in a real run an opening bracket whose category is not in the
\* expected mask returns JSMN_ERROR_INVAL whatever the free capacity of the
\* pool; JSMN_ERROR_NOMEM is returned only for a token that the expected
\* mask accepts; after [1 and a pool of capacity 2 a further [ returns
\* JSMN_ERROR_INVAL.
C17_UnexpectedOpenIsInval ==
  [][/\ NoMemOnlyIfExpected({<<LBRACE>>, <<LBRACKET>>, <<QUOTE, QUOTE>>,
                             <<CH_1, SPACE>>})
     /\ (/\ IsCall /\ ~null' /\ r' # JSMN_ERROR_INVAL
         /\ IsPrefix(js, Doc_open_unexpected))
          => jsmn_parse(parser', Doc_open_unexpected, 4, tokens', 2, FALSE,
                        links).r = JSMN_ERROR_INVAL]_vars

\* The same statement over strings and primitives.
C17_NoMemOnlyIfExpectedLeaf ==
  [][NoMemOnlyIfExpected({<<QUOTE, QUOTE>>, <<CH_1, SPACE>>})]_vars

\* The role that the claim gives the string token i of the pool toks over
\* the text d: KEY when the innermost container open at the string is an
\* object and the token before it is that object or a token with the VALUE
\* role.
IsKeyAsDocumented(d, toks, i) ==
  LET fr == FramesOf(d, toks[i])
  IN  /\ fr # <<>>
      /\ Byte(d, Head(fr).at) = LBRACE
      /\ i > 1
      /\ \/ toks[i - 1].start = Head(fr).at
         \/ jsmn_is_type(toks[i - 1], JSMN_VALUE) # 0

Last(toks) == toks[Len(toks)]

\* C18: in a real run an accepted string gets the KEY role exactly when the
\* open container is an OBJECT and the token allocated before it is that
\* OBJECT or has the VALUE role, else the VALUE role; after a KEY the
\* expected mask is {DELIMITER}, after a string VALUE {DELIMITER, CLOSE}; a
\* colon is accepted only when the last token is a KEY and leaves the mask
\* {OBJECT, ARRAY, STRING, PRIMITIVE}.
C18_StringRolesAndColon ==
  [][(IsCall /\ ~null' /\ r' # JSMN_ERROR_INVAL)
       => /\ \A i \in 1..Len(tokens') :
               jsmn_is_type(tokens'[i], JSMN_STRING) # 0
                 => tokens'[i].type =
                      BitOr(JSMN_STRING,
                            IF IsKeyAsDocumented(js', tokens', i)
                            THEN JSMN_KEY ELSE JSMN_VALUE)
          /\ LET res == RealNext(<<QUOTE, QUOTE>>, Ample)
             IN  res.r # JSMN_ERROR_INVAL
                   => res.parser.expected =
                        (IF jsmn_is_type(Last(res.tokens), JSMN_KEY) # 0
                         THEN JSMN_DELIMITER
                         ELSE BitOr(JSMN_DELIMITER, JSMN_CLOSE))
          /\ LET res == RealNext(<<COLON>>, Ample)
             IN  res.r # JSMN_ERROR_INVAL
                   => /\ tokens' # <<>>
                      /\ jsmn_is_type(Last(tokens'), JSMN_KEY) # 0
                      /\ res.parser.expected = JSMN_ANY_TYPE]_vars

\* C18 happens: the run over [{"a":[1]},"b"] has made a the KEY of the
\* object and b a VALUE of the outer array.
C18_Witness ==
  /\ called /\ ~strayed /\ ~null /\ js = Doc_nested /\ r = 6
  /\ tokens[3].type = BitOr(JSMN_STRING, JSMN_KEY)
  /\ tokens[6].type = BitOr(JSMN_STRING, JSMN_VALUE)

\* The OBJECT and ARRAY tokens that are open: start set, end unset.
OpenContainers ==
  {i \in 1..Len(tokens) :
     /\ IsContainer(tokens[i])
     /\ tokens[i].start # JSMN_NEG
     /\ tokens[i].end = JSMN_NEG}

\* C19: in every state that real-run calls which did not return
\* JSMN_ERROR_INVAL reach, parser->toksuper is JSMN_NEG only when no OBJECT
\* or ARRAY token is open, and when it is not JSMN_NEG it is the index of an
\* allocated token.  It is checked in every state that any sequence of calls
\* whose behaviour is defined reaches, of which those states are a part.
C19_ToksuperTracksOpenContainer ==
  fate = "defined"
    => /\ parser.toksuper = JSMN_NEG => OpenContainers = {}
       /\ parser.toksuper # JSMN_NEG
            => parser.toksuper >= 0 /\ parser.toksuper < parser.toknext

\* C19 happens: a real run stopped after the colon of an open object, with
\* parser->toksuper on the key.
C19_Witness ==
  /\ called /\ ~strayed /\ ~null /\ r = JSMN_ERROR_PART
  /\ OpenContainers = {1}
  /\ parser.toksuper = 1 /\ parser.toknext = 2
  /\ jsmn_is_type(tokens[2], JSMN_KEY) # 0

\* What the two builds, with and without JSMN_PARENT_LINKS, make of one
\* call by a fresh parser over the text d with a pool of capacity cap.
WithLinks(d, cap) == FreshParse(d, cap, FALSE, TRUE)
WithoutLinks(d, cap) == FreshParse(d, cap, FALSE, FALSE)

SameParse(d, cap) ==
  /\ WithLinks(d, cap).r = WithoutLinks(d, cap).r
  /\ [i \in 1..Len(WithLinks(d, cap).tokens) |->
        Shape(WithLinks(d, cap).tokens[i])]
       = [i \in 1..Len(WithoutLinks(d, cap).tokens) |->
            Shape(WithoutLinks(d, cap).tokens[i])]

\* The text ends with a closing bracket or a comma that both builds accept.
EndsWithAcceptedSeparator(d, cap) ==
  /\ d # <<>>
  /\ d[Len(d)] \in {RBRACE, RBRACKET, COMMA}
  /\ WithLinks(d, cap).parser.pos = Len(d)
  /\ WithoutLinks(d, cap).parser.pos = Len(d)
  /\ WithLinks(d, cap).r # JSMN_ERROR_INVAL
  /\ WithoutLinks(d, cap).r # JSMN_ERROR_INVAL

\* C20: parent links do not change what is parsed: for every buffer and
\* capacity the real runs of the build with parent links and of the build
\* without return the same value and write the same type, start, end and
\* size into every token, and after an accepted closing bracket or comma
\* parser->toksuper and the expected mask are the same in both.
C20_LinksChangeNothing ==
  [][(IsFirstCall /\ ~null')
       => /\ SameParse(js, num_tokens')
          /\ EndsWithAcceptedSeparator(js, num_tokens')
               => /\ WithLinks(js, num_tokens').parser.toksuper
                       = WithoutLinks(js, num_tokens').parser.toksuper
                  /\ WithLinks(js, num_tokens').parser.expected
                       = WithoutLinks(js, num_tokens').parser.expected]_vars

\* The return values and the tokens alone.
C20_SameReturnAndTokens ==
  [][(IsFirstCall /\ ~null') => SameParse(js, num_tokens')]_vars

\* The same statement over the texts that are well-formed JSON.
C20_SameOnWellFormed ==
  [][(IsFirstCall /\ ~null' /\ WellFormed(Meaningful(js)))
       => SameParse(js, num_tokens')]_vars

\* Every access of the call that a step makes is to a record allocated
\* before the access, within the capacity the call was given.
TouchesInPool(cap) ==
  \A t \in ParseTouches(parser, js, Len(js), tokens, cap, FALSE, links) :
    t[1] >= 0 /\ t[1] < t[2] /\ t[2] <= cap

\* C21: pool safety of the real run: over any sequence of calls, each with
\* a pool that holds the records allocated so far (no call before it has
\* overrun a pool that ended with its records), parser->toknext never
\* decreases and never exceeds the capacity of the pool, parser->pos never
\* exceeds the declared length, and every record the call reads or writes
\* has an index from 0 up to, not including, parser->toknext at the time of
\* the access; none is JSMN_NEG, and none is toknext - 1 or toknext - 2
\* while fewer tokens than that exist: the behaviour of the call is defined.
C21_PoolSafety ==
  [][(IsAnyCall /\ fate = "defined" /\ ~null'
        /\ parser.toknext <= num_tokens')
       => /\ fate' = "defined"
          /\ parser'.toknext >= parser.toknext
          /\ parser'.toknext <= num_tokens'
          /\ parser'.toknext = Len(tokens')
          /\ parser'.pos <= Len(js')
          /\ TouchesInPool(num_tokens')]_vars

\* C21 happens: a real run that stopped for want of tokens was resumed and
\* filled its pool of two records to the last one, the key of an object,
\* for which the string scanner read tokens[toksuper] and tokens[toknext - 2].
C21_Witness ==
  /\ called /\ ~strayed /\ ~null
  /\ JSMN_ERROR_NOMEM \in stops
  /\ num_tokens = 2 /\ parser.toknext = num_tokens
  /\ parser.pos = Len(js)
  /\ jsmn_is_type(tokens[1], JSMN_OBJECT) # 0
  /\ jsmn_is_type(tokens[2], JSMN_KEY) # 0

=============================================================================
